---------------------------- MODULE Spec2Model ----------------------------
(***************************************************************************)
(* A model of oneargopy's Argo class: the download layer                   *)
(* (__download_file / __check_nc_update / __try_download), the loading of  *)
(* the two index files into dataframes (__load_sprof_dataframe,            *)
(* __load_prof_dataframe, __mark_bgcs_in_prof, __load_float_stats) and     *)
(* select_profiles / trajectories on the loaded frames.                    *)
(*                                                                         *)
(* Three specifications share the variables:                               *)
(*   SpecFetch   one call of __download_file against two hosts;            *)
(*   SpecLoad    the constructor's loading of index files whose rows come  *)
(*               in any order;                                             *)
(*   SpecSelect  construction followed by select_profiles / trajectories.  *)
(***************************************************************************)
EXTENDS Integers, Sequences, FiniteSets, TLC

(***************************************************************************)
(* Bounds of the model.                                                    *)
(***************************************************************************)
\* DownloadSettings.max_attempts ranges over 1..MaxAttempts
MaxAttempts == 2
\* DownloadSettings.update ranges over 0..MaxUpdate (seconds); the age of the
\* local index file over 0..MaxUpdate+1
MaxUpdate == 1
\* DATE_UPDATE stamps of a .nc file and of the index range over 1..MaxStamp
MaxStamp == 2
\* a float has 1..MaxStatRows rows in prof_index when its .nc file is checked
MaxStatRows == 2

\* SourceSettings.hosts holds two hosts, the preferred one first
NumHosts == 2

Hosts == 1..NumHosts

VARIABLES
  \* ---- settings and environment of one fetch
  file_kind,          \* "txt" (index file) or "nc" (per-float archive): file_name's suffix
  update,             \* download_settings.update
  max_attempts,       \* download_settings.max_attempts
  seconds_since_modified, \* now - st_mtime of the local index file
  netcdf_update_date, \* DATE_UPDATE read from the local .nc file
  date_updates,       \* the date_update column of the float's prof_index rows
  host_mode,          \* what each host does with a request
  \* ---- the file system
  file_path,          \* content at the final path (directory/file_name)
  gz_path,            \* content at directory/file_name.gz (index files only)
  \* ---- the call
  fpc,                \* "idle", "trying", "done"
  update_status,      \* __try_download's argument
  success,
  iterations,
  host,               \* the host the for loop is at
  requests,           \* the host requests made so far, in order
  outcome,            \* how the call ended
  warned,             \* the WARNING line was printed
  file0               \* content at the final path when the call started

fvars == <<file_kind, update, max_attempts, seconds_since_modified,
           netcdf_update_date, date_updates, host_mode, file_path, gz_path,
           fpc, update_status, success, iterations, host, requests, outcome,
           warned, file0>>

VARIABLES
  \* ---- settings of an Argo instance
  keep_index_in_memory, \* download_settings.keep_index_in_memory
  verbose,            \* download_settings.verbose
  \* ---- the index files on disk (rows after the 8 header lines, in file order)
  prof_file,          \* ar_index_global_prof.txt
  sprof_file,         \* argo_synthetic-profile_index.txt
  header_lines,       \* the lines before the line of column names, per file
  \* ---- the instance
  cpc,                \* "new" before __init__, "ready" after it
  prof_index,         \* self.prof_index
  sprof_index,        \* self.sprof_index
  float_stats,        \* self.float_stats
  criteria,           \* the attributes select_profiles sets from its arguments
  float_ids,          \* self.float_ids
  float_profiles_dict, \* self.float_profiles_dict
  selected_from_prof_index,  \* self.selected_from_prof_index
  selected_from_sprof_index, \* self.selected_from_sprof_index
  selection_frame,    \* self.selection_frame
  result,             \* what the last public call returned or raised
  calls,              \* the number of public calls made on the instance
  arguments,          \* the arguments of the last select_profiles call
  threads             \* the select_profiles calls that run concurrently

cvars == <<keep_index_in_memory, verbose, prof_file, sprof_file, header_lines,
           cpc, prof_index,
           sprof_index, float_stats, criteria, float_ids, float_profiles_dict,
           selected_from_prof_index, selected_from_sprof_index,
           selection_frame, result, calls, arguments, threads>>

vars == <<fvars, cvars>>

(***************************************************************************)
(* The index files and the dataframes loaded from them.                    *)
(***************************************************************************)
\* an index file holds at most MaxRows rows; the two files together too
MaxRows == 3
\* at most MaxCalls calls of select_profiles and trajectories follow __init__
MaxCalls == 1

\* Sample values of the columns.
Wmoids == {1, 2}
Dates == {1, 2}
\* 1995-01-01, the start of the full date range
Epoch == 0
\* datetime.now(): after every date of the index
Now == 3
\* one longitude inside and one outside the box [-170, -168] x [20, 25]
Lons == {-169, 10}
Lats == {22}
\* an empty longitude or latitude field is read as NaN (a profile under ice)
NaN == 1000
\* the ocean column of a row: the basin of its position, empty without one
OceanOf(lon) == IF lon = NaN THEN "nan" ELSE IF lon < -100 THEN "P" ELSE "A"

\* The rows an index file can hold; a row without a longitude has no latitude
RawRows(files, wmoids, dates, stamps, lons) ==
  {[file |-> r.file, wmoid |-> r.wmoid, date |-> r.date,
    date_update |-> r.date_update, longitude |-> r.longitude,
    latitude |-> IF r.longitude = NaN THEN NaN ELSE r.latitude,
    ocean |-> OceanOf(r.longitude)] :
     r \in [file : files, wmoid : wmoids, date : dates, date_update : stamps,
            longitude : lons, latitude : Lats]}

\* A dataframe attribute of the instance: deleted (del self.x) or loaded;
\* is_bgc_col says whether the frame has the is_bgc column.
\* A frame made by pd.DataFrame() has no columns at all (columns = FALSE).
NoFrame == [loaded |-> FALSE, columns |-> FALSE, is_bgc_col |-> FALSE, rows |-> <<>>]
Frame(rows, col) == [loaded |-> TRUE, columns |-> TRUE, is_bgc_col |-> col, rows |-> rows]

\* sort_values(by=['wmoid', 'date']): a lexicographic sort on the two keys that
\* keeps rows with equal keys in the order of the file (pandas sorts several
\* keys with a stable sort)
KeyLess(a, b) == a.wmoid < b.wmoid \/ (a.wmoid = b.wmoid /\ a.date < b.date)
KeyEq(a, b) == a.wmoid = b.wmoid /\ a.date = b.date
SortPosition(s, i) ==
  1 + Cardinality({j \in DOMAIN s :
                     KeyLess(s[j], s[i]) \/ (KeyEq(s[j], s[i]) /\ j < i)})
SortValues(s) ==
  [k \in 1..Len(s) |-> s[CHOOSE i \in DOMAIN s : SortPosition(s, i) = k]]

\* CumCount without the groupby: how many rows of any float come before row k
CumCountUngrouped(s, k) == k - 1

\* groupby('wmoid')['date'].cumcount(): how many rows of the same float come
\* before row k of the sorted frame
CumCount(s, k) == Cardinality({j \in 1..(k - 1) : s[j].wmoid = s[k].wmoid})

\* pd.read_csv(header=8): the line of index 8 names the columns and the lines
\* before it are skipped.  An index file is p lines of preamble, the line of
\* column names and its rows.
HeaderLines == 8
EightLines == [prof |-> HeaderLines, sprof |-> HeaderLines]
\* ReadCsvRaises for a file that ends before the line of index 8 only
ReadCsvRaisesWhenShort(p, file) == p + 1 + Len(file) <= HeaderLines
\* read_csv raises: the file has no line of index 8, or that line is a row or
\* a line of the preamble, so that the columns 'date' and 'date_update' of
\* parse_dates are missing
ReadCsvRaises(p, file) ==
  \/ p + 1 + Len(file) <= HeaderLines
  \/ p # HeaderLines

\* __load_prof_dataframe / __load_sprof_dataframe: the rows sorted and
\* numbered; table tells the two frames' column sets apart
LoadDataframe(file, table) ==
  LET sorted == SortValues(file)
  IN [k \in 1..Len(sorted) |->
        [file |-> sorted[k].file, wmoid |-> sorted[k].wmoid,
         date |-> sorted[k].date, date_update |-> sorted[k].date_update,
         longitude |-> sorted[k].longitude, latitude |-> sorted[k].latitude,
         ocean |-> sorted[k].ocean,
         profile_index |-> CumCount(sorted, k) + 1,
         is_bgc |-> FALSE, table |-> table]]

LoadProfDataframe(file) == LoadDataframe(file, "prof")
LoadSprofDataframe(file) == LoadDataframe(file, "sprof")

WmoidsOf(rows) == {rows[i].wmoid : i \in DOMAIN rows}

\* MarkBgcsInProf that marks no float
MarkNoBgcs(prof_rows, sprof_rows) ==
  [k \in 1..Len(prof_rows) |-> [prof_rows[k] EXCEPT !.is_bgc = FALSE]]

\* __mark_bgcs_in_prof: is_bgc = prof_index['wmoid'].isin(sprof wmoids)
MarkBgcsInProf(prof_rows, sprof_rows) ==
  [k \in 1..Len(prof_rows) |->
     [prof_rows[k] EXCEPT !.is_bgc = prof_rows[k].wmoid \in WmoidsOf(sprof_rows)]]

\* __load_float_stats: the prof_index rows carrying their float's latest
\* date_update, as (wmoid, is_bgc, date_update)
IsLatestUpdate(rows, r) ==
  \A i \in DOMAIN rows : rows[i].wmoid = r.wmoid => rows[i].date_update <= r.date_update
StatRow(r) == [wmoid |-> r.wmoid, is_bgc |-> r.is_bgc, date_update |-> r.date_update]
LoadFloatStats(rows) ==
  LET kept == SelectSeq(rows, LAMBDA r : IsLatestUpdate(rows, r))
  IN [k \in 1..Len(kept) |-> StatRow(kept[k])]

(***************************************************************************)
(* select_profiles                                                         *)
(***************************************************************************)
\* The floats= argument: absent, one id, a list or a dictionary keyed by id.
NoFloats == [form |-> "none", ids |-> <<>>]
FloatsArgs ==
  {NoFloats,
   [form |-> "single", ids |-> <<1>>],
   [form |-> "list", ids |-> <<2, 1>>],
   [form |-> "dict", ids |-> <<2>>],
   [form |-> "list", ids |-> <<1, 3>>],
   [form |-> "list", ids |-> <<>>]}
\* "if self.float_ids": an absent argument and an empty list are falsy
Truthy(floats) == floats.form # "none" /\ floats.ids # <<>>

IdsOf(floats) == {floats.ids[i] : i \in DOMAIN floats.ids}

LonLatLimits == {[lon |-> <<-180, 180>>, lat |-> <<-90, 90>>],
                 [lon |-> <<-170, -168>>, lat |-> <<20, 25>>]}
FloatTypes == {"all", "phys", "bgc"}

\* start_date and end_date left at their defaults; end_date = None becomes
\* now + 1 day
FullDates == [start |-> Epoch, end |-> Now + 1]

\* The arguments of select_profiles.  outside and ocean are "None" when the
\* keyword is not given; type "all" is also what the settings give when no type
\* is passed.
SelectArgs(lims, dates, outsides, types, oceans, floats) ==
  [lim : lims, dates : dates, outside : outsides, type : types, ocean : oceans,
   floats : floats]
\* the calls of SpecSelect: every type and floats argument, over the globe
\* or the box, over all dates
ScopeArgs ==
  SelectArgs(LonLatLimits, {FullDates}, {"None"}, FloatTypes, {"None"}, FloatsArgs)
NoArgs ==
  [lim |-> [lon |-> <<>>, lat |-> <<>>], dates |-> FullDates, outside |-> "None",
   type |-> "all", ocean |-> "None", floats |-> NoFloats]

\* min() and max() of a list of limits that is not empty
Min2(p) == CHOOSE x \in {p[i] : i \in DOMAIN p} : \A i \in DOMAIN p : x <= p[i]
Max2(p) == CHOOSE x \in {p[i] : i \in DOMAIN p} : \A i \in DOMAIN p : x >= p[i]

\* __validate_lon_lat_limits for two-element limits that pass it: whether the
\* limits span the globe, and the limits shifted by 360 when the minimum is
\* below -180
KeepFullGeographic(lim) ==
  lim.lon[2] - lim.lon[1] = 360 /\ lim.lat[2] - lim.lat[1] = 180
AdjustLonLimAlways(lon) == [i \in DOMAIN lon |-> lon[i] + 360]
AdjustLonLim(lon) ==
  IF Min2(lon) < -180 THEN [i \in DOMAIN lon |-> lon[i] + 360] ELSE lon

\* "if self.outside", "if self.float_type", "if self.ocean": None and the empty
\* string are falsy
TruthyWord(w) == w # "None" /\ w # ""

\* The first validation of select_profiles that raises, "ok" when none does
LimitsRaise(lim) ==
  \/ Len(lim.lon) # Len(lim.lat)
  \/ Len(lim.lon) = 0
  \/ Len(lim.lon) = 2 /\ (lim.lon[2] <= lim.lon[1] \/ lim.lat[2] <= lim.lat[1])
  \/ \E i \in DOMAIN lim.lat : lim.lat[i] < -90 \/ lim.lat[i] > 90
  \/ Max2(lim.lon) - Min2(lim.lon) > 360
  \/ Max2(lim.lon) - Min2(lim.lon) <= 0
DatesRaise(dates) == dates.start > dates.end \/ dates.start < Epoch
OutsideRaise(outside) ==
  TruthyWord(outside) /\ outside \notin {"time", "space", "both"}
TypeRaise(type) == TruthyWord(type) /\ type \notin {"all", "phys", "bgc"}
OceanRaise(ocean) == TruthyWord(ocean) /\ ocean \notin {"A", "P", "I"}
ValidationStep(a) ==
  IF LimitsRaise(a.lim) THEN "limits"
  ELSE IF DatesRaise(a.dates) THEN "dates"
  ELSE IF OutsideRaise(a.outside) THEN "outside"
  ELSE IF TypeRaise(a.type) THEN "type"
  ELSE IF OceanRaise(a.ocean) THEN "ocean"
  ELSE "ok"

\* self.keep_full_geographic is assigned only for two-element limits that are
\* in order; geo_set tells whether the attribute exists
GeoAssigned(lim) ==
  /\ Len(lim.lon) = Len(lim.lat) /\ Len(lim.lon) = 2
  /\ ~(lim.lon[2] <= lim.lon[1] \/ lim.lat[2] <= lim.lat[1])

NoCriteria ==
  [lon_lim |-> <<-180, 180>>, lat_lim |-> <<-90, 90>>,
   keep_full_geographic |-> TRUE, geo_set |-> FALSE,
   start_date |-> Epoch, end_date |-> Now + 1,
   outside |-> "None", float_type |-> "all", ocean |-> "None"]

\* The attributes select_profiles leaves from its arguments; before holds the
\* attributes of the earlier calls
Criteria(a, before) ==
  [lon_lim |-> IF LimitsRaise(a.lim) THEN a.lim.lon ELSE AdjustLonLim(a.lim.lon),
   lat_lim |-> a.lim.lat,
   keep_full_geographic |->
     IF GeoAssigned(a.lim) THEN KeepFullGeographic(a.lim)
     ELSE before.keep_full_geographic,
   geo_set |-> GeoAssigned(a.lim) \/ before.geo_set,
   start_date |-> a.dates.start, end_date |-> a.dates.end,
   outside |-> a.outside, float_type |-> a.type, ocean |-> a.ocean]

\* matplotlib's Path.contains_points for a point off the edges of a convex
\* polygon: the point is on the same side of every edge
Cross(shape, i, x, y) ==
  LET j == IF i = Len(shape) THEN 1 ELSE i + 1
  IN (shape[j][1] - shape[i][1]) * (y - shape[i][2])
       - (shape[j][2] - shape[i][2]) * (x - shape[i][1])
ContainsPoint(shape, x, y) ==
  \/ \A i \in DOMAIN shape : Cross(shape, i, x, y) > 0
  \/ \A i \in DOMAIN shape : Cross(shape, i, x, y) < 0
\* the box of two-element limits, or the polygon of the listed vertices
Shape(c) ==
  IF Len(c.lat_lim) = 2
    THEN <<<<Max2(c.lon_lim), Min2(c.lat_lim)>>, <<Max2(c.lon_lim), Max2(c.lat_lim)>>,
           <<Min2(c.lon_lim), Max2(c.lat_lim)>>, <<Min2(c.lon_lim), Min2(c.lat_lim)>>>>
  ELSE [i \in DOMAIN c.lon_lim |-> <<c.lon_lim[i], c.lat_lim[i]>>]

\* __get_in_geographic_range for one row: the longitude is moved by 360 into
\* the limits' range, then the point is tested against the box.  The sampled
\* points lie off the box's edges.
InGeographicRange(r, c) ==
  IF c.keep_full_geographic THEN TRUE
  ELSE IF r.longitude = NaN \/ r.latitude = NaN
    THEN \* no comparison with NaN is true and contains_points skips points
         \* that are not finite
         FALSE
  ELSE LET x == IF Max2(c.lon_lim) > 180 /\ -180 < r.longitude
                     /\ r.longitude < Min2(c.lon_lim)
                  THEN r.longitude + 360 ELSE r.longitude
       IN ContainsPoint(Shape(c), x, r.latitude)

\* InDateRange with the two ends of the range included
InDateRangeClosed(r, c) ==
  IF c.start_date = Epoch /\ c.end_date >= Now THEN TRUE
  ELSE r.date >= c.start_date /\ r.date <= c.end_date

\* __get_in_date_range for one row of a frame that is not empty
InDateRange(r, c) ==
  IF c.start_date = Epoch /\ c.end_date >= Now THEN TRUE
  ELSE r.date > c.start_date /\ r.date < c.end_date

\* FloatInTimeAndSpace without the date range
FloatInSpace(rows, r, c) ==
  \E i \in DOMAIN rows :
    rows[i].wmoid = r.wmoid /\ InGeographicRange(rows[i], c)

\* FloatInTimeAndSpace over the rows of the requested ocean only
FloatInTimeSpaceAndOcean(rows, r, c) ==
  \E i \in DOMAIN rows :
    /\ rows[i].wmoid = r.wmoid
    /\ InGeographicRange(rows[i], c)
    /\ InDateRange(rows[i], c)
    /\ TruthyWord(c.ocean) => rows[i].ocean = c.ocean

\* floats_in_time_and_space: the row's float has a row in both ranges
FloatInTimeAndSpace(rows, r, c) ==
  \E i \in DOMAIN rows :
    /\ rows[i].wmoid = r.wmoid
    /\ InGeographicRange(rows[i], c)
    /\ InDateRange(rows[i], c)

\* Constraints without the test of the row's float
ConstraintsPerRow(rows, r, c) ==
  CASE c.outside = "time" -> InGeographicRange(r, c)
    [] c.outside = "space" -> InDateRange(r, c)
    [] c.outside = "None" -> InGeographicRange(r, c) /\ InDateRange(r, c)
    [] c.outside = "both" -> TRUE

\* Constraints where 'both' keeps only the rows inside both ranges
ConstraintsBothInside(rows, r, c) ==
  CASE c.outside = "time" ->
         FloatInTimeAndSpace(rows, r, c) /\ InGeographicRange(r, c)
    [] c.outside = "space" ->
         FloatInTimeAndSpace(rows, r, c) /\ InDateRange(r, c)
    [] c.outside \in {"None", "both"} ->
         /\ FloatInTimeAndSpace(rows, r, c)
         /\ InGeographicRange(r, c)
         /\ InDateRange(r, c)

\* the constraints of __get_in_time_and_space_constraints for one row
Constraints(rows, r, c) ==
  CASE c.outside = "time" ->
         FloatInTimeAndSpace(rows, r, c) /\ InGeographicRange(r, c)
    [] c.outside = "space" ->
         FloatInTimeAndSpace(rows, r, c) /\ InDateRange(r, c)
    [] c.outside = "None" ->
         /\ FloatInTimeAndSpace(rows, r, c)
         /\ InGeographicRange(r, c)
         /\ InDateRange(r, c)
    [] c.outside = "both" -> FloatInTimeAndSpace(rows, r, c)

GetInTimeAndSpaceConstraints(rows, c) ==
  SelectSeq(rows, LAMBDA r : Constraints(rows, r, c))

\* __validate_floats_kwarg: the ids as a list, and the ids that are not in
\* prof_index
MissingFloats(floats, prof_rows) == IdsOf(floats) \ WmoidsOf(prof_rows)
ProfilesDict(floats) ==
  IF floats.form = "dict" THEN [state |-> "dict", keys |-> floats.ids]
  ELSE [state |-> "None", keys |-> <<>>]
AsList(floats) == [form |-> "list", ids |-> floats.ids]

\* StatsFloats without the test of is_bgc
StatsFloatsOfAnyKind(stats, ids, bgc) ==
  {stats[i].wmoid : i \in {j \in DOMAIN stats : stats[j].wmoid \in ids}}

\* the floats of float_stats that were asked for and have the given is_bgc
StatsFloats(stats, ids, bgc) ==
  {stats[i].wmoid : i \in {j \in DOMAIN stats :
                             stats[j].wmoid \in ids /\ stats[j].is_bgc = bgc}}

RowsOfFloats(rows, ws) == SelectSeq(rows, LAMBDA r : r.wmoid \in ws)

\* SelectedFromProf that takes the whole prof_index when no floats are given
SelectedFromWholeProf(prof_rows, stats, floats, type, before) ==
  IF floats.form = "none"
    THEN Frame(prof_rows, TRUE)
  ELSE IF type # "bgc"
    THEN Frame(RowsOfFloats(prof_rows, StatsFloats(stats, IdsOf(floats), FALSE)), TRUE)
  ELSE before

\* SelectedFromProf that takes the rows of the given floats of any kind
SelectedFromProfOfGivenFloats(prof_rows, stats, floats, type, before) ==
  IF floats.form = "none"
    THEN Frame(SelectSeq(prof_rows, LAMBDA r : r.is_bgc = FALSE), TRUE)
  ELSE IF type # "bgc"
    THEN Frame(RowsOfFloats(prof_rows, IdsOf(floats)), TRUE)
  ELSE before

\* __prepare_selection's two frames; with floats and a type that leaves one
\* of them out, that frame keeps what an earlier call left in it
SelectedFromProf(prof_rows, stats, floats, type, before) ==
  IF floats.form = "none"
    THEN Frame(SelectSeq(prof_rows, LAMBDA r : r.is_bgc = FALSE), TRUE)
  ELSE IF type # "bgc"
    THEN Frame(RowsOfFloats(prof_rows, StatsFloats(stats, IdsOf(floats), FALSE)), TRUE)
  ELSE before

SelectedFromSprof(sprof_rows, stats, floats, type, before) ==
  IF floats.form = "none"
    THEN Frame(sprof_rows, FALSE)
  ELSE IF type # "phys"
    THEN Frame(RowsOfFloats(sprof_rows, StatsFloats(stats, IdsOf(floats), TRUE)), FALSE)
  ELSE before

\* __narrow_profiles_by_criteria up to the concat: the bgc rows first
SelectionFramePhys(sel_prof, c) ==
  IF c.float_type = "bgc" \/ sel_prof.rows = <<>> THEN <<>>
  ELSE GetInTimeAndSpaceConstraints(sel_prof.rows, c)
SelectionFrameBgc(sel_sprof, c) ==
  IF c.float_type = "phys" \/ sel_sprof.rows = <<>> THEN <<>>
  ELSE GetInTimeAndSpaceConstraints(sel_sprof.rows, c)
SelectionFrame(sel_prof, sel_sprof, c) ==
  SelectionFrameBgc(sel_sprof, c) \o SelectionFramePhys(sel_prof, c)

\* SortedKeys in descending order
DescendingKeys(S) ==
  [k \in 1..Cardinality(S) |->
     CHOOSE x \in S : Cardinality({y \in S : y > x}) = k - 1]

\* __dataframe_to_dictionary: each float's profile_index values in the order
\* of the frame's rows, the keys sorted
SortedKeys(S) ==
  [k \in 1..Cardinality(S) |->
     CHOOSE x \in S : Cardinality({y \in S : y < x}) = k - 1]
ProfilesOf(rows, w) ==
  LET mine == SelectSeq(rows, LAMBDA r : r.wmoid = w)
  IN [k \in 1..Len(mine) |-> mine[k].profile_index]
DataframeToDictionary(rows) ==
  LET keys == SortedKeys(WmoidsOf(rows))
  IN [k \in 1..Len(keys) |-> [wmoid |-> keys[k], profiles |-> ProfilesOf(rows, keys[k])]]

NoResult == [call |-> "none", status |-> "none", dict |-> <<>>]
Returned(call, d) == [call |-> call, status |-> "returned", dict |-> d]
Raised(call) == [call |-> call, status |-> "raised", dict |-> <<>>]

NoProfilesDict == [state |-> "unset", keys |-> <<>>]

\* no call of select_profiles runs next to another
NoThreads == <<>>

(***************************************************************************)
(* The download layer.  File contents: src 0 is what was on disk before    *)
(* the call, src h > 0 what host h serves.  An index file is served        *)
(* gzipped and is extracted;                                               *)
(* a .nc archive is served as it is.  A transfer that breaks off leaves a  *)
(* partial copy of the payload.                                            *)
(***************************************************************************)
Absent == [src |-> 0, form |-> "absent"]
Old == [src |-> 0, form |-> "plain"]
Payload(h, kind) == [src |-> h, form |-> IF kind = "txt" THEN "gz" ELSE "plain"]
Partial(h) == [src |-> h, form |-> "partial"]
\* gzip.open(first_save_path) copied to second_save_path
Gunzip(c) == [src |-> c.src, form |-> "plain"]

\* What one request can do:
\*   "ok"      the transfer completes;
\*   "refuse"  requests.get or raise_for_status raises a RequestException
\*             (connection refused, timeout on connect, HTTP error status);
\*   "drop"    the connection breaks while shutil.copyfileobj reads r.raw: the
\*             save path is already opened for writing and urllib3 raises its
\*             own error, which is no RequestException.
Outcomes == {"ok", "refuse", "drop"}
HostModes == {"up", "refuse", "drop", "flaky"}
Allowed(mode) ==
  CASE mode = "up" -> {"ok"}
    [] mode = "refuse" -> {"refuse"}
    [] mode = "drop" -> {"drop"}
    [] OTHER -> Outcomes

\* __try_download's save paths
FirstIsFinal(kind) == kind = "nc"

InitFetch ==
  /\ file_kind \in {"txt", "nc"}
  /\ update \in 0..MaxUpdate
  /\ max_attempts \in 1..MaxAttempts
  /\ host_mode \in [Hosts -> HostModes]
  /\ file_path \in {Absent, Old}
  /\ gz_path = Absent
  \* the staleness inputs exist only for a local file of the matching kind
  /\ seconds_since_modified \in
       IF file_path = Old /\ file_kind = "txt" THEN 0..(MaxUpdate + 1) ELSE {0}
  /\ netcdf_update_date \in
       IF file_path = Old /\ file_kind = "nc" THEN 1..MaxStamp ELSE {1}
  /\ date_updates \in
       IF file_path = Old /\ file_kind = "nc"
         THEN UNION {[1..n -> 1..MaxStamp] : n \in 1..MaxStatRows}
         ELSE {<<1>>}
  /\ fpc = "idle"
  /\ update_status = FALSE
  /\ success = FALSE
  /\ iterations = 0
  /\ host = 1
  /\ requests = <<>>
  /\ outcome = "none"
  /\ warned = FALSE
  /\ file0 = file_path
  /\ keep_index_in_memory = FALSE
  /\ verbose = FALSE
  /\ prof_file = <<>>
  /\ sprof_file = <<>>
  /\ header_lines = EightLines
  /\ threads = NoThreads
  /\ cpc = "off"
  /\ prof_index = NoFrame
  /\ sprof_index = NoFrame
  /\ float_stats = <<>>
  /\ criteria = NoCriteria
  /\ float_ids = NoFloats
  /\ float_profiles_dict = NoProfilesDict
  /\ selected_from_prof_index = NoFrame
  /\ selected_from_sprof_index = NoFrame
  /\ selection_frame = NoFrame
  /\ result = NoResult
  /\ calls = 0
  /\ arguments = NoArgs

\* __load_float_stats for one float: groupby('wmoid')['date_update'].max(),
\* merged back on (wmoid, date_update); every row left carries the maximum
FloatStatsDateUpdate(stamps) ==
  CHOOSE m \in {stamps[i] : i \in DOMAIN stamps} :
    \A i \in DOMAIN stamps : stamps[i] <= m

\* __check_nc_update: the .nc file's DATE_UPDATE is before the index's
CheckNcUpdate(nc_date, stamps) == nc_date < FloatStatsDateUpdate(stamps)

\* NeedsUpdate with the age compared by >= : a file exactly as old as the
\* threshold is refreshed
NeedsUpdateAtThreshold ==
  IF update = 0 THEN FALSE
  ELSE IF file_kind = "txt" THEN seconds_since_modified >= update
  ELSE CheckNcUpdate(netcdf_update_date, date_updates)

\* __download_file's decision for a local file that exists
NeedsUpdate ==
  IF update = 0 THEN FALSE
  ELSE IF file_kind = "txt" THEN seconds_since_modified > update
  ELSE CheckNcUpdate(netcdf_update_date, date_updates)

\* __download_file up to its call of __try_download
DownloadFile ==
  /\ fpc = "idle"
  /\ IF file_path # Absent
       THEN IF NeedsUpdate
              THEN /\ fpc' = "trying"
                   /\ update_status' = TRUE
                   /\ outcome' = outcome
              ELSE /\ fpc' = "done"
                   /\ outcome' = "returned"
                   /\ update_status' = update_status
       ELSE /\ fpc' = "trying"
            /\ update_status' = FALSE
            /\ outcome' = outcome
  /\ UNCHANGED <<file_kind, update, max_attempts, seconds_since_modified,
                 netcdf_update_date, date_updates, host_mode, file_path,
                 gz_path, success, iterations, host, requests, warned, file0>>
  /\ UNCHANGED cvars

\* The end of __try_download once the while loop is left without success
FailedOutcome(upd) == IF upd THEN "returned" ELSE "fatal"

\* NextHost that requests the same host again
SameHost(h) == h
\* "for host in self.source_settings.hosts": the host after host h of the list
NextHost(h) == h + 1

\* One pass of the body of "for host in hosts" in __try_download, with what
\* follows it when the for loop and the while loop end there.
HostRequest(o) ==
  /\ fpc = "trying"
  /\ o \in Allowed(host_mode[host])
  /\ requests' = Append(requests, [host |-> host, result |-> o])
  /\ CASE o = "ok" ->
            \* the payload is saved, an index file is unzipped and the .gz
            \* removed; success, break, iterations += 1, the while loop ends
            /\ IF FirstIsFinal(file_kind)
                 THEN /\ file_path' = Payload(host, file_kind)
                      /\ gz_path' = gz_path
                 ELSE /\ file_path' = Gunzip(Payload(host, file_kind))
                      /\ gz_path' = Absent
            /\ success' = TRUE
            /\ iterations' = iterations + 1
            /\ host' = host
            /\ fpc' = "done"
            /\ outcome' = "returned"
            /\ warned' = warned
       [] o = "refuse" ->
            \* caught: "Trying next host..."; nothing was opened for writing
            /\ UNCHANGED <<file_path, gz_path, success>>
            /\ IF host < NumHosts
                 THEN /\ host' = NextHost(host)
                      /\ UNCHANGED <<iterations, fpc, outcome, warned>>
                 ELSE /\ host' = 1
                      /\ iterations' = iterations + 1
                      /\ IF iterations + 1 < max_attempts
                           THEN UNCHANGED <<fpc, outcome, warned>>
                           ELSE /\ fpc' = "done"
                                /\ outcome' = FailedOutcome(update_status)
                                /\ warned' = update_status
       [] o = "drop" ->
            \* open(first_save_path, 'wb') truncated the save path and part of
            \* the payload was copied; the error is not caught and leaves
            \* __try_download
            /\ IF FirstIsFinal(file_kind)
                 THEN /\ file_path' = Partial(host)
                      /\ gz_path' = gz_path
                 ELSE /\ gz_path' = Partial(host)
                      /\ file_path' = file_path
            /\ UNCHANGED <<success, iterations, host, warned>>
            /\ fpc' = "done"
            /\ outcome' = "crash"
  /\ UNCHANGED <<file_kind, update, max_attempts, seconds_since_modified,
                 netcdf_update_date, date_updates, host_mode,
                 update_status, file0>>
  /\ UNCHANGED cvars

TryDownload == \E o \in Outcomes : HostRequest(o)

(***************************************************************************)
(* The instance: __init__, select_profiles, trajectories.                  *)
(***************************************************************************)
\* The rows of the index files in the order the files list them.  In
\* SpecSelect the files list their rows by (longitude, date, wmoid), in
\* SpecLoad in any order.
AttrLess(a, b) ==
  \/ a.longitude < b.longitude
  \/ a.longitude = b.longitude /\ a.date < b.date
  \/ a.longitude = b.longitude /\ a.date = b.date /\ a.wmoid < b.wmoid
Numbered(s) == [i \in 1..Len(s) |-> [s[i] EXCEPT !.file = i]]
ListedFiles(n) ==
  {Numbered(s) : s \in {t \in [1..n -> RawRows({0}, Wmoids, {1}, {1}, Lons)] :
                          \A i \in 1..n : \A j \in 1..n :
                            i < j => AttrLess(t[i], t[j])}}
ShuffledFiles(n) ==
  {s \in [1..n -> RawRows(1..n, Wmoids, Dates, {1}, {10})] :
     \A i \in 1..n : \A j \in 1..n : i # j => s[i].file # s[j].file}

InitInstance ==
  /\ cpc = "new"
  /\ prof_index = NoFrame
  /\ sprof_index = NoFrame
  /\ float_stats = <<>>
  /\ criteria = NoCriteria
  /\ float_ids = NoFloats
  /\ float_profiles_dict = NoProfilesDict
  /\ selected_from_prof_index = NoFrame
  /\ selected_from_sprof_index = NoFrame
  /\ selection_frame = NoFrame
  /\ result = NoResult
  /\ calls = 0
  /\ arguments = NoArgs

\* the download layer is at rest while the instance is exercised
FetchAtRest ==
  /\ file_kind = "txt"
  /\ update = 0
  /\ max_attempts = 1
  /\ seconds_since_modified = 0
  /\ netcdf_update_date = 1
  /\ date_updates = <<1>>
  /\ host_mode = [h \in Hosts |-> "up"]
  /\ file_path = Old
  /\ gz_path = Absent
  /\ fpc = "done"
  /\ update_status = FALSE
  /\ success = FALSE
  /\ iterations = 0
  /\ host = 1
  /\ requests = <<>>
  /\ outcome = "returned"
  /\ warned = FALSE
  /\ file0 = Old

InitSelect ==
  /\ FetchAtRest
  /\ keep_index_in_memory \in BOOLEAN
  /\ verbose \in BOOLEAN
  /\ \E n \in 0..MaxRows : \E m \in 0..(MaxRows - n) :
       /\ prof_file \in ListedFiles(n)
       /\ sprof_file \in ListedFiles(m)
  /\ header_lines = EightLines
  /\ threads = NoThreads
  /\ InitInstance

InitLoad ==
  /\ FetchAtRest
  /\ keep_index_in_memory \in BOOLEAN
  /\ verbose = FALSE
  /\ \E n \in 0..MaxRows : \E m \in 0..(MaxRows - n) :
       /\ prof_file \in ShuffledFiles(n)
       /\ sprof_file \in ShuffledFiles(m)
  /\ header_lines = EightLines
  /\ threads = NoThreads
  /\ InitInstance

\* __init__ once the index files are on disk: both frames are loaded,
\* prof_index is marked, float_stats is built, and the frames are deleted
\* again unless they are kept in memory
Construct ==
  /\ cpc = "new"
  /\ IF ReadCsvRaises(header_lines.sprof, sprof_file)
       THEN \* __load_sprof_dataframe raises: no attribute is set
            /\ cpc' = "failed"
            /\ result' = Raised("construct")
            /\ UNCHANGED <<prof_index, sprof_index, float_stats>>
     ELSE IF ReadCsvRaises(header_lines.prof, prof_file)
       THEN \* __load_prof_dataframe raises after self.sprof_index was set
            /\ cpc' = "failed"
            /\ result' = Raised("construct")
            /\ sprof_index' = Frame(LoadSprofDataframe(sprof_file), FALSE)
            /\ UNCHANGED <<prof_index, float_stats>>
     ELSE /\ LET sprof == LoadSprofDataframe(sprof_file)
                 prof == MarkBgcsInProf(LoadProfDataframe(prof_file), sprof)
             IN /\ float_stats' = LoadFloatStats(prof)
                /\ prof_index' = IF keep_index_in_memory THEN Frame(prof, TRUE)
                                  ELSE NoFrame
                /\ sprof_index' = IF keep_index_in_memory THEN Frame(sprof, FALSE)
                                   ELSE NoFrame
          /\ cpc' = "ready"
          /\ result' = result
  /\ UNCHANGED <<keep_index_in_memory, verbose, prof_file, sprof_file,
                 header_lines, threads, criteria, float_ids, float_profiles_dict,
                 selected_from_prof_index, selected_from_sprof_index,
                 selection_frame, calls, arguments>>
  /\ UNCHANGED fvars

\* The frames a public call works on: the ones in memory, or, when the index
\* is not kept in memory, the files loaded again (without the is_bgc column,
\* which only __init__ adds)
ProfNow == IF keep_index_in_memory THEN prof_index
           ELSE Frame(LoadProfDataframe(prof_file), FALSE)
SprofNow == IF keep_index_in_memory THEN sprof_index
            ELSE Frame(LoadSprofDataframe(sprof_file), FALSE)

\* pd.concat of the two selection frames has columns unless both are
\* pd.DataFrame()
ConcatFrame(sel_prof, sel_sprof, c) ==
  LET phys_made == ~(c.float_type = "bgc" \/ sel_prof.rows = <<>>)
      bgc_made == ~(c.float_type = "phys" \/ sel_sprof.rows = <<>>)
  IN [loaded |-> TRUE, columns |-> phys_made \/ bgc_made, is_bgc_col |-> phys_made,
      rows |-> SelectionFrame(sel_prof, sel_sprof, c)]

\* The attributes of the instance that select_profiles reads or writes
Instance ==
  [criteria |-> criteria, float_ids |-> float_ids,
   float_profiles_dict |-> float_profiles_dict,
   prof_index |-> prof_index, sprof_index |-> sprof_index,
   selected_from_prof_index |-> selected_from_prof_index,
   selected_from_sprof_index |-> selected_from_sprof_index,
   selection_frame |-> selection_frame, result |-> result]
\* ProfIn that keeps the rows of the floats that are not bgc only
ProfInWithoutBgc(inst) ==
  IF keep_index_in_memory
    THEN [inst.prof_index EXCEPT
            !.rows = SelectSeq(inst.prof_index.rows, LAMBDA r : r.is_bgc = FALSE)]
  ELSE Frame(LoadProfDataframe(prof_file), FALSE)

\* the frames select_profiles works on, for the attributes inst
ProfIn(inst) == IF keep_index_in_memory THEN inst.prof_index
                ELSE Frame(LoadProfDataframe(prof_file), FALSE)
SprofIn(inst) == IF keep_index_in_memory THEN inst.sprof_index
                 ELSE Frame(LoadSprofDataframe(sprof_file), FALSE)

\* __get_in_ocean_basin: the rows whose ocean column equals the argument
GetInOceanBasin(frame, c) ==
  [frame EXCEPT !.rows = SelectSeq(frame.rows, LAMBDA r : r.ocean = c.ocean)]

\* select_profiles(a) on an instance with the attributes inst: the attributes
\* it leaves, with what it returned or raised
SelectProfilesOn(a, inst) ==
  LET c == Criteria(a, inst.criteria)
      prof == ProfIn(inst)
      sprof == SprofIn(inst)
      validated == Truthy(a.floats)
      missing == validated /\ MissingFloats(a.floats, prof.rows) # {}
      sel_prof == SelectedFromProf(prof.rows, float_stats, a.floats, a.type,
                                   inst.selected_from_prof_index)
      sel_sprof == SelectedFromSprof(sprof.rows, float_stats, a.floats, a.type,
                                     inst.selected_from_sprof_index)
      filtering == \/ ~(c.float_type = "bgc" \/ sel_prof.rows = <<>>)
                   \/ ~(c.float_type = "phys" \/ sel_sprof.rows = <<>>)
      frame == ConcatFrame(sel_prof, sel_sprof, c)
      raised == Raised("select_profiles")
      started == [inst EXCEPT !.criteria = c, !.float_ids = a.floats]
      loaded == [started EXCEPT
                   !.prof_index = prof, !.sprof_index = sprof,
                   !.float_ids = IF validated THEN AsList(a.floats) ELSE a.floats,
                   !.float_profiles_dict =
                      IF validated THEN ProfilesDict(a.floats)
                      ELSE inst.float_profiles_dict]
      prepared == [loaded EXCEPT !.selected_from_prof_index = sel_prof,
                                 !.selected_from_sprof_index = sel_sprof]
      narrowed == [prepared EXCEPT
                     !.selection_frame = frame,
                     !.prof_index = IF keep_index_in_memory THEN prof
                                    ELSE NoFrame,
                     !.sprof_index = IF keep_index_in_memory THEN sprof
                                     ELSE NoFrame]
  IN IF ValidationStep(a) # "ok"
       THEN \* a validation raises
            [started EXCEPT !.result = raised]
     ELSE IF missing \/ (a.floats.form = "none" /\ ~prof.is_bgc_col)
       THEN \* __validate_floats_kwarg raises, or prof_index['is_bgc'] is a
            \* KeyError
            [loaded EXCEPT !.result = raised]
     ELSE IF verbose /\ (~sel_prof.loaded \/ ~sel_sprof.loaded)
       THEN \* the count of floats reads a frame no call has set
            [prepared EXCEPT !.result = raised]
     ELSE IF filtering /\ (~c.geo_set
                             \/ c.outside \notin {"None", "time", "space", "both"})
       THEN \* self.keep_full_geographic was never assigned (AttributeError),
            \* or no branch of __get_in_time_and_space_constraints assigns
            \* selection_frame (UnboundLocalError)
            [prepared EXCEPT !.result = raised]
     ELSE IF ~frame.columns /\ (verbose \/ TruthyWord(c.ocean))
       THEN \* selection_frame['wmoid'] or ['ocean'] of a frame without columns
            [narrowed EXCEPT !.result = raised]
     ELSE LET final == IF TruthyWord(c.ocean) THEN GetInOceanBasin(frame, c)
                       ELSE frame
          IN [narrowed EXCEPT
                !.selection_frame = final,
                !.result =
                   IF ~keep_index_in_memory
                     THEN \* the frames were deleted in
                          \* __narrow_profiles_by_criteria; deleting them again
                          \* is an AttributeError
                          raised
                   ELSE Returned("select_profiles",
                                 DataframeToDictionary(final.rows))]

\* One call of select_profiles on the constructed instance
SelectProfilesCall(a) ==
  /\ cpc = "ready"
  /\ calls' = calls + 1
  /\ arguments' = a
  /\ \E after \in {SelectProfilesOn(a, Instance)} :
        /\ criteria' = after.criteria
        /\ float_ids' = after.float_ids
        /\ float_profiles_dict' = after.float_profiles_dict
        /\ prof_index' = after.prof_index
        /\ sprof_index' = after.sprof_index
        /\ selected_from_prof_index' = after.selected_from_prof_index
        /\ selected_from_sprof_index' = after.selected_from_sprof_index
        /\ selection_frame' = after.selection_frame
        /\ result' = after.result
  /\ UNCHANGED <<keep_index_in_memory, verbose, prof_file, sprof_file,
                 header_lines, threads, cpc,
                 float_stats>>
  /\ UNCHANGED fvars

\* One call of select_profiles, among the MaxCalls public calls of a run
SelectProfiles(a) == calls < MaxCalls /\ SelectProfilesCall(a)

\* Two calls of select_profiles that run at the same time on one instance.
\* Each call goes through its three parts in order, the validations with the
\* assignment of the attributes before them, __prepare_selection and
\* __narrow_profiles_by_criteria; a part of one call can run between two parts
\* of the other.  The parts read and write the attributes of the instance;
\* only the returned dictionary is local to a call.
Threads == {1, 2}
StartedThread(a) == [pc |-> "validate", args |-> a, result |-> NoResult]
ThreadRaises(t) ==
  [threads EXCEPT ![t].pc = "done", ![t].result = Raised("select_profiles")]

\* lines 170-186 of select_profiles in thread t
ValidateParameters(t) ==
  /\ cpc = "ready"
  /\ threads[t].pc = "validate"
  /\ criteria' = Criteria(threads[t].args, criteria)
  /\ float_ids' = threads[t].args.floats
  /\ threads' = IF ValidationStep(threads[t].args) # "ok" THEN ThreadRaises(t)
                 ELSE [threads EXCEPT ![t].pc = "prepare"]
  /\ UNCHANGED <<keep_index_in_memory, verbose, prof_file, sprof_file,
                 header_lines, cpc, prof_index, sprof_index, float_stats,
                 float_profiles_dict, selected_from_prof_index,
                 selected_from_sprof_index, selection_frame, result, calls,
                 arguments>>
  /\ UNCHANGED fvars

\* __prepare_selection in thread t, on the attributes as they are now
PrepareSelection(t) ==
  /\ cpc = "ready"
  /\ threads[t].pc = "prepare"
  /\ LET prof == ProfIn(Instance)
         sprof == SprofIn(Instance)
         validated == Truthy(float_ids)
         missing == validated /\ MissingFloats(float_ids, prof.rows) # {}
     IN /\ prof_index' = prof
        /\ sprof_index' = sprof
        /\ float_ids' = IF validated THEN AsList(float_ids) ELSE float_ids
        /\ float_profiles_dict' = IF validated THEN ProfilesDict(float_ids)
                                   ELSE float_profiles_dict
        /\ IF missing \/ (float_ids.form = "none" /\ ~prof.is_bgc_col)
             THEN /\ threads' = ThreadRaises(t)
                  /\ UNCHANGED <<selected_from_prof_index, selected_from_sprof_index>>
             ELSE /\ selected_from_prof_index' =
                       SelectedFromProf(prof.rows, float_stats, float_ids,
                                        criteria.float_type, selected_from_prof_index)
                  /\ selected_from_sprof_index' =
                       SelectedFromSprof(sprof.rows, float_stats, float_ids,
                                         criteria.float_type, selected_from_sprof_index)
                  /\ threads' =
                       IF verbose /\ (~selected_from_prof_index'.loaded
                                        \/ ~selected_from_sprof_index'.loaded)
                         THEN ThreadRaises(t)
                       ELSE [threads EXCEPT ![t].pc = "narrow"]
  /\ UNCHANGED <<keep_index_in_memory, verbose, prof_file, sprof_file,
                 header_lines, cpc, float_stats, criteria, selection_frame,
                 result, calls, arguments>>
  /\ UNCHANGED fvars

\* __narrow_profiles_by_criteria in thread t, on the attributes as they are
\* now, and the return of select_profiles
NarrowProfilesByCriteria(t) ==
  /\ cpc = "ready"
  /\ threads[t].pc = "narrow"
  /\ keep_index_in_memory
  /\ LET filtering ==
           \/ ~(criteria.float_type = "bgc" \/ selected_from_prof_index.rows = <<>>)
           \/ ~(criteria.float_type = "phys" \/ selected_from_sprof_index.rows = <<>>)
         frame == ConcatFrame(selected_from_prof_index, selected_from_sprof_index,
                              criteria)
     IN IF filtering /\ (~criteria.geo_set
                           \/ criteria.outside \notin {"None", "time", "space", "both"})
          THEN /\ threads' = ThreadRaises(t)
               /\ UNCHANGED selection_frame
        ELSE IF ~frame.columns /\ (verbose \/ TruthyWord(criteria.ocean))
          THEN /\ threads' = ThreadRaises(t)
               /\ selection_frame' = frame
        ELSE /\ selection_frame' = IF TruthyWord(criteria.ocean)
                                      THEN GetInOceanBasin(frame, criteria)
                                    ELSE frame
             /\ threads' =
                  [threads EXCEPT
                     ![t].pc = "done",
                     ![t].result =
                        Returned("select_profiles",
                                 DataframeToDictionary(selection_frame'.rows))]
  /\ UNCHANGED <<keep_index_in_memory, verbose, prof_file, sprof_file,
                 header_lines, cpc, prof_index, sprof_index, float_stats,
                 criteria, float_ids, float_profiles_dict,
                 selected_from_prof_index, selected_from_sprof_index, result,
                 calls, arguments>>
  /\ UNCHANGED fvars

\* The floats argument of trajectories: an id, a list or a dictionary
TrajectoryArgs == {f \in FloatsArgs : Truthy(f)}

\* trajectories up to the plotting
Trajectories(f) ==
  /\ cpc = "ready"
  /\ calls < MaxCalls
  /\ calls' = calls + 1
  /\ float_ids' = AsList(f)
  /\ float_profiles_dict' = ProfilesDict(f)
  /\ IF MissingFloats(f, ProfNow.rows) # {}
       THEN /\ prof_index' = ProfNow
            /\ sprof_index' = SprofNow
            /\ result' = Raised("trajectories")
       ELSE /\ prof_index' = IF keep_index_in_memory THEN prof_index ELSE NoFrame
            /\ sprof_index' = IF keep_index_in_memory THEN sprof_index ELSE NoFrame
            /\ result' = Returned("trajectories", <<>>)
  /\ UNCHANGED <<keep_index_in_memory, verbose, prof_file, sprof_file,
                 header_lines, threads, cpc,
                 float_stats, criteria, selected_from_prof_index,
                 selected_from_sprof_index, selection_frame, arguments>>
  /\ UNCHANGED fvars

Select == \E a \in ScopeArgs : SelectProfiles(a)
Plot == \E f \in TrajectoryArgs : Trajectories(f)

\* The constructed instance before any public call
FreshInstance ==
  [criteria |-> NoCriteria, float_ids |-> NoFloats,
   float_profiles_dict |-> NoProfilesDict,
   prof_index |-> IF keep_index_in_memory THEN prof_index ELSE NoFrame,
   sprof_index |-> IF keep_index_in_memory THEN sprof_index ELSE NoFrame,
   selected_from_prof_index |-> NoFrame, selected_from_sprof_index |-> NoFrame,
   selection_frame |-> NoFrame, result |-> NoResult]

\* SpecOutside: index files whose rows differ in date and position, kept in
\* memory, and one call of select_profiles with every outside value, over the
\* globe or the box, over all dates or a window, with and without an ocean
\* and floats.
BgcCandidates == {2}
DatedFiles(n, wmoids) ==
  {Numbered(s) : s \in {t \in [1..n -> RawRows({0}, wmoids, Dates, {1}, Lons)] :
                          \A i \in 1..n : \A j \in 1..n :
                            i < j => AttrLess(t[i], t[j])}}
\* a window that holds the later of the two dates only
Window == [start |-> 1, end |-> Now]
OutsideArgs ==
  SelectArgs(LonLatLimits, {FullDates, Window},
             {"None", "time", "space", "both", "none"}, FloatTypes, {"None", "P"},
             {NoFloats, [form |-> "list", ids |-> <<2, 1>>]})

InitOutside ==
  /\ FetchAtRest
  /\ keep_index_in_memory = TRUE
  /\ verbose = FALSE
  /\ \E n \in 0..MaxRows : \E m \in 0..(MaxRows - n) :
       /\ prof_file \in DatedFiles(n, Wmoids)
       /\ sprof_file \in DatedFiles(m, BgcCandidates)
  /\ header_lines = EightLines
  /\ threads = NoThreads
  /\ InitInstance

\* the first public call on the instance
SelectFirst == calls = 0 /\ \E a \in OutsideArgs : SelectProfiles(a)

NextOutside == Construct \/ SelectFirst
SpecOutside == InitOutside /\ [][NextOutside]_vars

\* SpecFastPath: index files with rows that have no position (profiles under
\* ice) and rows dated at the start of the full date range, kept in memory,
\* and one call of select_profiles over the globe or the box, over all dates
\* or the window.
IceFiles(n, wmoids) ==
  {Numbered(s) : s \in {t \in [1..n -> RawRows({0}, wmoids, {Epoch, 1}, {1}, {-169, NaN})] :
                          \A i \in 1..n : \A j \in 1..n :
                            i < j => AttrLess(t[i], t[j])}}
FastPathArgs ==
  SelectArgs(LonLatLimits, {FullDates, Window}, {"None"}, FloatTypes, {"None"},
             {NoFloats})

InitFastPath ==
  /\ FetchAtRest
  /\ keep_index_in_memory = TRUE
  /\ verbose = FALSE
  /\ \E n \in 0..MaxRows : \E m \in 0..(MaxRows - n) :
       /\ prof_file \in IceFiles(n, Wmoids)
       /\ sprof_file \in IceFiles(m, BgcCandidates)
  /\ header_lines = EightLines
  /\ threads = NoThreads
  /\ InitInstance

SelectRegion == calls = 0 /\ \E a \in FastPathArgs : SelectProfiles(a)

NextFastPath == Construct \/ SelectRegion
SpecFastPath == InitFastPath /\ [][NextFastPath]_vars

\* SpecLimits: a physical index of one row, at a longitude of [-180, 180],
\* and one call of select_profiles with two-element longitude limits in
\* several 360-degree ranges, none of them through a sampled longitude
\* moved by a multiple of 360, with latitude limits around the row.
LimitLons == {-180, -175, -10, 175, 180}
LimitBounds == {-560, -538, -190, -170, 10, 170, 190, 530, 550}
LimitFiles ==
  {Numbered(<<r>>) : r \in RawRows({0}, {1}, {1}, {1}, LimitLons)}
LimitArgs ==
  SelectArgs({[lon |-> p, lat |-> l] :
                p \in {q \in LimitBounds \X LimitBounds :
                         q[2] > q[1] /\ q[2] - q[1] <= 360},
                l \in {<<20, 25>>, <<-90, 90>>}},
             {FullDates}, {"None"}, {"all"}, {"None"}, {NoFloats})

InitLimits ==
  /\ FetchAtRest
  /\ keep_index_in_memory = TRUE
  /\ verbose = FALSE
  /\ prof_file \in LimitFiles
  /\ sprof_file = <<>>
  /\ header_lines = EightLines
  /\ threads = NoThreads
  /\ InitInstance

SelectInLimits == calls = 0 /\ \E a \in LimitArgs : SelectProfiles(a)

NextLimits == Construct \/ SelectInLimits
SpecLimits == InitLimits /\ [][NextLimits]_vars

\* SpecInvalid: one call of select_profiles over the box whose arguments are
\* valid, or hold one value that the validations are there to reject: limits
\* of unequal lengths, a latitude of 95, a longitude span of 0, below 0 and
\* above 360, an end date before the start date, a start date before 1995,
\* and an unknown and an empty word for type, outside and ocean.
BoxArgs ==
  [lim |-> [lon |-> <<-170, -168>>, lat |-> <<20, 25>>], dates |-> FullDates,
   outside |-> "None", type |-> "all", ocean |-> "None", floats |-> NoFloats]
InvalidLimits ==
  {[lon |-> <<-170, -168>>, lat |-> <<20, 22, 25>>],
   [lon |-> <<-170, -168>>, lat |-> <<20, 95>>],
   [lon |-> <<-170, -170>>, lat |-> <<20, 25>>],
   [lon |-> <<-168, -170>>, lat |-> <<20, 25>>],
   [lon |-> <<-190, 180>>, lat |-> <<20, 25>>]}
InvalidDates == {[start |-> 2, end |-> 1], [start |-> Epoch - 1, end |-> Now + 1]}
InvalidWords == {"unknown", ""}
InvalidArgs ==
  {BoxArgs}
    \cup {[BoxArgs EXCEPT !.lim = l] : l \in InvalidLimits}
    \cup {[BoxArgs EXCEPT !.dates = d] : d \in InvalidDates}
    \cup {[BoxArgs EXCEPT !.type = w] : w \in InvalidWords}
    \cup {[BoxArgs EXCEPT !.outside = w] : w \in InvalidWords}
    \cup {[BoxArgs EXCEPT !.ocean = w] : w \in InvalidWords}

InitInvalid ==
  /\ FetchAtRest
  /\ keep_index_in_memory \in BOOLEAN
  /\ verbose = FALSE
  /\ \E n \in 0..MaxRows : \E m \in 0..(MaxRows - n) :
       /\ prof_file \in ListedFiles(n)
       /\ sprof_file \in ListedFiles(m)
  /\ header_lines = EightLines
  /\ threads = NoThreads
  /\ InitInstance

SelectInvalid == calls = 0 /\ \E a \in InvalidArgs : SelectProfiles(a)

NextInvalid == Construct \/ SelectInvalid
SpecInvalid == InitInvalid /\ [][NextInvalid]_vars

\* SpecSequence: up to MaxSequence calls of select_profiles, one after the
\* other, on one instance that keeps the index in memory: over the globe,
\* the box or a triangle around the box's longitude, for type 'all' or 'phys',
\* with and without floats.
MaxSequence == 2
Triangle == [lon |-> <<-170, -168, -169>>, lat |-> <<20, 20, 25>>]
SequenceArgs ==
  SelectArgs(LonLatLimits \cup {Triangle}, {FullDates}, {"None"}, {"all", "phys"},
             {"None"}, {NoFloats, [form |-> "single", ids |-> <<1>>]})

InitSequence ==
  /\ FetchAtRest
  /\ keep_index_in_memory = TRUE
  /\ verbose \in BOOLEAN
  /\ \E n \in 0..MaxRows : \E m \in 0..(MaxRows - n) :
       /\ prof_file \in ListedFiles(n)
       /\ sprof_file \in ListedFiles(m)
  /\ header_lines = EightLines
  /\ threads = NoThreads
  /\ InitInstance

SelectAgain ==
  calls < MaxSequence /\ \E a \in SequenceArgs : SelectProfilesCall(a)

NextSequence == Construct \/ SelectAgain
SpecSequence == InitSequence /\ [][NextSequence]_vars

\* SpecDates: a physical index whose rows are dated at the epoch and after,
\* kept in memory, and one call of select_profiles over the globe with a
\* window: the full range up to now or later, and windows that start at the
\* epoch or end after now but are not the full range.
DatesOfRows == {Epoch, 1, 2}
DateFiles(n) ==
  {Numbered(s) : s \in {t \in [1..n -> RawRows({0}, Wmoids, DatesOfRows, {1}, {-169})] :
                          \A i \in 1..n : \A j \in 1..n :
                            i < j => AttrLess(t[i], t[j])}}
Windows ==
  {FullDates, [start |-> Epoch, end |-> Now], [start |-> Epoch, end |-> 2],
   [start |-> 1, end |-> Now + 1], [start |-> 1, end |-> 2]}
DateArgs ==
  SelectArgs({[lon |-> <<-180, 180>>, lat |-> <<-90, 90>>]}, Windows, {"None"},
             {"all"}, {"None"}, {NoFloats})

InitDates ==
  /\ FetchAtRest
  /\ keep_index_in_memory = TRUE
  /\ verbose = FALSE
  /\ \E n \in 0..MaxRows : prof_file \in DateFiles(n)
  /\ sprof_file = <<>>
  /\ header_lines = EightLines
  /\ threads = NoThreads
  /\ InitInstance

SelectInWindow == calls = 0 /\ \E a \in DateArgs : SelectProfiles(a)

NextDates == Construct \/ SelectInWindow
SpecDates == InitDates /\ [][NextDates]_vars

\* SpecHeader: index files with up to MaxHeader lines before the line of
\* column names, and the construction that loads them.
MaxHeader == 9
InitHeader ==
  /\ FetchAtRest
  /\ keep_index_in_memory \in BOOLEAN
  /\ verbose = FALSE
  /\ \E n \in 0..MaxRows : \E m \in 0..(MaxRows - n) :
       /\ prof_file \in ListedFiles(n)
       /\ sprof_file \in ListedFiles(m)
  /\ header_lines \in [prof : 0..MaxHeader, sprof : 0..MaxHeader]
  /\ threads = NoThreads
  /\ InitInstance

NextHeader == Construct
SpecHeader == InitHeader /\ [][NextHeader]_vars

\* SpecConcurrent: two calls of select_profiles on one instance that keeps
\* the index in memory, over the globe or the box, for type 'all' or 'phys',
\* with their parts interleaved in every order.
ConcurrentArgs ==
  SelectArgs(LonLatLimits, {FullDates}, {"None"}, {"all", "phys"}, {"None"},
             {NoFloats})
InitConcurrent ==
  /\ FetchAtRest
  /\ keep_index_in_memory = TRUE
  /\ verbose = FALSE
  /\ \E n \in 0..MaxRows : \E m \in 0..(MaxRows - n) :
       /\ prof_file \in ListedFiles(n)
       /\ sprof_file \in ListedFiles(m)
  /\ header_lines = EightLines
  /\ threads \in [Threads -> {StartedThread(a) : a \in ConcurrentArgs}]
  /\ InitInstance

ThreadValidates == \E t \in Threads : ValidateParameters(t)
ThreadPrepares == \E t \in Threads : PrepareSelection(t)
ThreadNarrows == \E t \in Threads : NarrowProfilesByCriteria(t)

NextConcurrent ==
  Construct \/ ThreadValidates \/ ThreadPrepares \/ ThreadNarrows
SpecConcurrent == InitConcurrent /\ [][NextConcurrent]_vars

NextLoad == Construct
NextSelect == Construct \/ Select \/ Plot

SpecLoad == InitLoad /\ [][NextLoad]_vars
SpecSelect == InitSelect /\ [][NextSelect]_vars

NextFetch == DownloadFile \/ TryDownload

SpecFetch == InitFetch /\ [][NextFetch]_vars
(***************************************************************************)
(* Properties of the download layer (SpecFetch).                           *)
(***************************************************************************)
\* the call is over, by a return or by an exception
FetchDone == fpc = "done"
\* every host was requested in each of the max_attempts attempts, and no
\* request succeeded
EveryHostFailedEveryAttempt ==
  /\ Len(requests) = max_attempts * NumHosts
  /\ \A i \in DOMAIN requests : requests[i].result # "ok"
\* every host fails every request, before or during the transfer
AllHostsFail == \A h \in Hosts : host_mode[h] \in {"refuse", "drop"}

\* C1: a fetch ends in an error if and only if the local file did not exist
\* when the call started and every host failed in every one of the
\* max_attempts attempts; in every other case it returns normally.
C1_FatalIffAbsentAndUnreachable ==
  FetchDone =>
    ((outcome # "returned") <=> (file0 = Absent /\ EveryHostFailedEveryAttempt))

\* C2: when a refresh of an existing local file is attempted and every host
\* fails, in whatever way, the local file afterwards has exactly the content it
\* had before the call, the warning was printed and the call returned.
C2_FailedRefreshKeepsFile ==
  (FetchDone /\ update_status /\ AllHostsFail) =>
    (file_path = file0 /\ warned /\ outcome = "returned")

\* the staleness condition of the claim, stated on the inputs: a threshold
\* that is not 0 and, for an index file, an age strictly above it, for a .nc
\* file a DATE_UPDATE strictly before the float's latest date_update
C3_Stale ==
  /\ update # 0
  /\ file_kind = "txt" => seconds_since_modified > update
  /\ file_kind = "nc" =>
       \E i \in DOMAIN date_updates : netcdf_update_date < date_updates[i]

\* C3: when the local file exists, no host request is made if the threshold is
\* 0, and a refresh is attempted (hosts are requested) if and only if the file
\* is stale in the sense above.
C3_StalenessPolicy ==
  file0 # Absent =>
    /\ update = 0 => requests = <<>>
    /\ fpc = "trying" => (update_status /\ C3_Stale)
    /\ FetchDone => ((requests # <<>>) <=> C3_Stale)

\* a stale .nc file of a float with several index rows was refreshed
C3_Witness ==
  /\ FetchDone /\ file0 = Old /\ file_kind = "nc"
  /\ Len(date_updates) > 1 /\ date_updates[1] # date_updates[2]
  /\ requests # <<>>

\* C4: with a first host that always fails and a second that always succeeds,
\* the fetch returns and the final path holds exactly the second host's
\* (extracted) payload.
C4_SecondHostServes ==
  (FetchDone /\ requests # <<>> /\ host_mode[1] \in {"refuse", "drop"}
     /\ host_mode[2] = "up") =>
    (outcome = "returned" /\ file_path = [src |-> 2, form |-> "plain"])

(***************************************************************************)
(* Properties of the loaded tables (SpecLoad).                             *)
(***************************************************************************)
\* the positions of float w's rows
RowsOfFloat(rows, w) == {k \in DOMAIN rows : rows[k].wmoid = w}
\* the ordinals of every float are 1..N and never decrease with the date
DenseAndMonotonic(rows) ==
  \A w \in WmoidsOf(rows) :
    LET mine == RowsOfFloat(rows, w)
    IN /\ {rows[k].profile_index : k \in mine} = 1..Cardinality(mine)
       /\ \A j \in mine : \A k \in mine :
            rows[j].date < rows[k].date =>
              rows[j].profile_index < rows[k].profile_index

\* C5: after loading either table, the profile_index values of each float's
\* rows are exactly 1..N, N the number of the float's rows in that table, and
\* a row with a later date has a larger ordinal than an earlier row of the
\* same float.
C5_OrdinalInvariant ==
  cpc = "ready" =>
    /\ DenseAndMonotonic(ProfNow.rows)
    /\ DenseAndMonotonic(SprofNow.rows)

\* a table kept in memory in which a float has three rows, listed in the file
\* later date first, next to another float
C5_Witness ==
  /\ cpc = "ready" /\ keep_index_in_memory
  /\ Len(prof_file) = MaxRows
  /\ prof_file[1].date > prof_file[2].date
  /\ prof_file[1].wmoid = prof_file[2].wmoid
  /\ prof_file[3].wmoid # prof_file[1].wmoid
  /\ \E k \in DOMAIN prof_index.rows : prof_index.rows[k].profile_index = 2

\* the rows of a file in another order
RowOrders(n) ==
  {p \in [1..n -> 1..n] : \A i \in 1..n : \A j \in 1..n : i # j => p[i] # p[j]}
Reordered(file, p) == [i \in 1..Len(file) |-> file[p[i]]]
\* the ordinal a loaded table gives to the row that came from line f
OrdinalOf(rows, f) ==
  rows[CHOOSE k \in DOMAIN rows : rows[k].file = f].profile_index
SameOrdinalsInAnyOrder(file, table) ==
  \A p \in RowOrders(Len(file)) :
    LET one == LoadDataframe(file, table)
        other == LoadDataframe(Reordered(file, p), table)
    IN \A k \in DOMAIN one : OrdinalOf(other, one[k].file) = one[k].profile_index

\* C6: loading the same rows in any two orders gives every row the same
\* profile_index, also when a float has several rows with the same date.
C6_OrdinalsIndependentOfRowOrder ==
  cpc = "ready" =>
    /\ SameOrdinalsInAnyOrder(prof_file, "prof")
    /\ SameOrdinalsInAnyOrder(sprof_file, "sprof")

(***************************************************************************)
(* Properties of the selection (SpecSelect).                               *)
(***************************************************************************)
\* the floats of the biogeochemical index file
BgcFloats == WmoidsOf(sprof_file)

\* C7: whenever the instance holds the physical table, each of its rows
\* carries is_bgc, TRUE exactly for the floats that have a row in the
\* biogeochemical table, whatever calls were made since the construction.
C7_IsBgcMatchesSprof ==
  prof_index.loaded =>
    \A k \in DOMAIN prof_index.rows :
      /\ prof_index.is_bgc_col
      /\ prof_index.rows[k].is_bgc = (prof_index.rows[k].wmoid \in BgcFloats)

\* select_profiles returned a dictionary
Selected == result.call = "select_profiles" /\ result.status = "returned"
\* the rows behind the result, each named by its table and its line
SelectedRows == {<<selection_frame.rows[k].table, selection_frame.rows[k].file>> :
                   k \in DOMAIN selection_frame.rows}
ResultKeys == {result.dict[k].wmoid : k \in DOMAIN result.dict}
\* lines of the two files
SprofLines(ws) == {<<"sprof", sprof_file[i].file>> :
                     i \in {j \in DOMAIN sprof_file : sprof_file[j].wmoid \in ws}}
ProfLines(ws) == {<<"prof", prof_file[i].file>> :
                    i \in {j \in DOMAIN prof_file : prof_file[j].wmoid \in ws}}
AllFloats == WmoidsOf(prof_file) \cup WmoidsOf(sprof_file)
\* the rows a type draws from: the physical table without the bgc floats, the
\* biogeochemical table
ScopeOf(type, ws) ==
  (IF type # "bgc" THEN ProfLines(ws \ BgcFloats) ELSE {})
    \cup (IF type # "phys" THEN SprofLines(ws \cap BgcFloats) ELSE {})

\* C8: without floats=, the rows of the result come from the physical table
\* without the bgc floats for type 'phys', from the biogeochemical table for
\* 'bgc', from both for 'all'; over the whole globe and all dates the result
\* holds exactly these rows.  Its keys are the floats of these rows.
C8_ScopeWithoutFloats ==
  (Selected /\ float_ids.form = "none") =>
    /\ SelectedRows \subseteq ScopeOf(criteria.float_type, AllFloats)
    /\ criteria.keep_full_geographic =>
         SelectedRows = ScopeOf(criteria.float_type, AllFloats)
    /\ ResultKeys = WmoidsOf(selection_frame.rows)

\* type 'all' over the globe: a bgc float with rows in both files next to a
\* float of the physical file only
C8_Witness ==
  /\ Selected /\ float_ids.form = "none"
  /\ criteria.float_type = "all" /\ criteria.keep_full_geographic
  /\ WmoidsOf(prof_file) = Wmoids
  /\ Cardinality(BgcFloats) = 1
  /\ Len(result.dict) = 2

\* C9: with floats=, every key of the result is one of the given floats, and
\* the rows of the result are rows of the biogeochemical table of given floats
\* that are bgc, or rows of the physical table of given floats that are not,
\* each only if the type draws from that table.
C9_FloatsRestrictScope ==
  (Selected /\ float_ids.form # "none") =>
    /\ ResultKeys \subseteq IdsOf(float_ids)
    /\ ResultKeys = WmoidsOf(selection_frame.rows)
    /\ SelectedRows \subseteq ScopeOf(criteria.float_type, IdsOf(float_ids))
    /\ criteria.keep_full_geographic =>
         SelectedRows = ScopeOf(criteria.float_type, IdsOf(float_ids))

\* two floats were given, one of them bgc with rows in both files; both are
\* in the result
C9_Witness ==
  /\ Selected /\ Len(float_ids.ids) = 2
  /\ criteria.float_type = "all"
  /\ \E w \in IdsOf(float_ids) : w \in BgcFloats /\ w \in WmoidsOf(prof_file)
  /\ Len(result.dict) = 2

\* the tables float w's rows of the result come from
TablesOf(w) == {selection_frame.rows[k].table :
                  k \in RowsOfFloat(selection_frame.rows, w)}

\* C10: for type 'all', with or without floats=, every float of the result
\* has its rows from one table only, and a float with rows in the
\* biogeochemical table has them from there.
C10_BgcOverlapExclusion ==
  (Selected /\ criteria.float_type = "all") =>
    \A w \in ResultKeys :
      /\ Cardinality(TablesOf(w)) = 1
      /\ w \in BgcFloats => TablesOf(w) = {"sprof"}

\* a float with rows in both files is in the result of a call without floats=
C10_Witness ==
  /\ Selected /\ criteria.float_type = "all" /\ float_ids.form = "none"
  /\ \E w \in ResultKeys : w \in BgcFloats /\ w \in WmoidsOf(prof_file)

(***************************************************************************)
(* Properties of the outside modes (SpecOutside).                          *)
(***************************************************************************)
\* the rows of a table kept in memory
TableRows(t) == IF t = "prof" THEN prof_index.rows ELSE sprof_index.rows
\* the floats the call may draw from
GivenFloats ==
  IF arguments.floats.form = "none" THEN AllFloats ELSE IdsOf(arguments.floats)
\* S: the row matches the region of the call, every row when the limits span
\* the globe, else a row with a position inside the two-element limits
MatchesRegion(r) ==
  \/ arguments.lim = [lon |-> <<-180, 180>>, lat |-> <<-90, 90>>]
  \/ /\ r.longitude # NaN
     /\ arguments.lim.lon[1] < r.longitude /\ r.longitude < arguments.lim.lon[2]
     /\ arguments.lim.lat[1] < r.latitude /\ r.latitude < arguments.lim.lat[2]
\* T: the row matches the dates of the call, every row for the full range
MatchesWindow(r) ==
  \/ arguments.dates.start = Epoch /\ arguments.dates.end >= Now
  \/ arguments.dates.start < r.date /\ r.date < arguments.dates.end
\* F: float w has a row of table t that matches both
EligibleFloat(t, w) ==
  \E k \in DOMAIN TableRows(t) :
    /\ TableRows(t)[k].wmoid = w
    /\ MatchesRegion(TableRows(t)[k]) /\ MatchesWindow(TableRows(t)[k])
\* the predicate of the outside mode o on row r of table t
Retained(o, t, r) ==
  /\ EligibleFloat(t, r.wmoid)
  /\ o \in {"None", "time"} => MatchesRegion(r)
  /\ o \in {"None", "space"} => MatchesWindow(r)
\* the rows of the scope that mode o retains
RetainedRows(o) ==
  UNION {{<<t, TableRows(t)[k].file>> :
            k \in {j \in DOMAIN TableRows(t) :
                     /\ <<t, TableRows(t)[j].file>>
                          \in ScopeOf(arguments.type, GivenFloats)
                     /\ Retained(o, t, TableRows(t)[j])}} :
         t \in {"prof", "sprof"}}
\* the ordinals of float w's rows among the lines L
OrdinalsIn(L, w) ==
  UNION {{TableRows(t)[k].profile_index :
            k \in {j \in DOMAIN TableRows(t) :
                     /\ TableRows(t)[j].wmoid = w
                     /\ <<t, TableRows(t)[j].file>> \in L}} :
         t \in {"prof", "sprof"}}
ProfilesOfKey(k) == {result.dict[k].profiles[i] : i \in DOMAIN result.dict[k].profiles}

\* C11: without an ocean, the rows of the result are exactly the rows of the
\* scope with F and S and T when outside is not given, F and S for 'time',
\* F and T for 'space', F for 'both'; each float of the result is mapped to
\* the ordinals of these rows.
C11_OutsidePredicate ==
  (Selected /\ arguments.ocean = "None") =>
    /\ SelectedRows = RetainedRows(arguments.outside)
    /\ ResultKeys = WmoidsOf(selection_frame.rows)
    /\ \A k \in DOMAIN result.dict :
         ProfilesOfKey(k) =
           OrdinalsIn(RetainedRows(arguments.outside), result.dict[k].wmoid)

\* outside='time' over the box and the window: a float with a row inside both
\* keeps a row inside the box that is outside the window
C11_Witness ==
  /\ Selected /\ arguments.ocean = "None" /\ arguments.outside = "time"
  /\ arguments.dates = Window /\ arguments.lim.lon = <<-170, -168>>
  /\ \E k \in DOMAIN selection_frame.rows :
       ~MatchesWindow(selection_frame.rows[k])
  /\ \E k \in DOMAIN prof_index.rows : ~MatchesRegion(prof_index.rows[k])

\* the floats of the scope that have a row of their table matching both the
\* region and the dates
EligibleFloats ==
  {w \in AllFloats :
     \E t \in {"prof", "sprof"} :
       /\ EligibleFloat(t, w)
       /\ \E k \in DOMAIN TableRows(t) :
            /\ TableRows(t)[k].wmoid = w
            /\ <<t, TableRows(t)[k].file>> \in ScopeOf(arguments.type, GivenFloats)}
OutsideModes == {"None", "time", "space", "both"}
\* what the call of the state returns or raises when made with outside = o as
\* the first call on the instance
ResultWithOutside(o) ==
  SelectProfilesOn([arguments EXCEPT !.outside = o], FreshInstance).result
KeysOf(dict) == {dict[k].wmoid : k \in DOMAIN dict}

\* C12: without an ocean, the floats of the result are the floats with a row
\* matching both the region and the dates, the same call returns the same
\* floats with each of the four outside modes, and under 'both' each float is
\* mapped to all the ordinals 1..N of its rows in its table.
C12_SameFloatsInEveryMode ==
  (Selected /\ arguments.ocean = "None") =>
    /\ ResultKeys = EligibleFloats
    /\ \A o \in OutsideModes :
         /\ ResultWithOutside(o).status = "returned"
         /\ KeysOf(ResultWithOutside(o).dict) = ResultKeys
    /\ arguments.outside = "both" =>
         \A k \in DOMAIN result.dict : \A t \in TablesOf(result.dict[k].wmoid) :
           result.dict[k].profiles =
             [i \in 1..Cardinality(RowsOfFloat(TableRows(t), result.dict[k].wmoid))
                |-> i]

\* outside='both' over the box and the window: one float is returned with two
\* ordinals, one of a row outside the box, and another float of the scope
\* is absent
C12_Witness ==
  /\ Selected /\ arguments.ocean = "None" /\ arguments.outside = "both"
  /\ arguments.dates = Window /\ arguments.lim.lon = <<-170, -168>>
  /\ arguments.type = "phys" /\ arguments.floats.form = "none"
  /\ Cardinality(WmoidsOf(prof_file) \ BgcFloats) = 2
  /\ Len(result.dict) = 1 /\ Len(result.dict[1].profiles) = 2
  /\ \E k \in DOMAIN selection_frame.rows : ~MatchesRegion(selection_frame.rows[k])

\* the (float, ordinal) pairs of a returned dictionary
PairsOf(dict) ==
  UNION {{<<dict[k].wmoid, dict[k].profiles[i]>> : i \in DOMAIN dict[k].profiles} :
         k \in DOMAIN dict}
\* the modes that keep at least the rows of mode o
LooserModes(o) ==
  CASE o = "None" -> {"None", "time", "space", "both"}
    [] o = "time" -> {"time", "both"}
    [] o = "space" -> {"space", "both"}
    [] o = "both" -> {"both"}

\* C13: with the other criteria fixed (ocean and floats= included), the pairs
\* returned grow with the mode: none within time within both, and none within
\* space within both.
C13_ModesAreMonotonic ==
  Selected =>
    /\ PairsOf(result.dict) = PairsOf(ResultWithOutside(arguments.outside).dict)
    /\ \A o \in OutsideModes : \A l \in LooserModes(o) :
         /\ ResultWithOutside(o).status = "returned"
         /\ ResultWithOutside(l).status = "returned"
         /\ PairsOf(ResultWithOutside(o).dict) \subseteq PairsOf(ResultWithOutside(l).dict)

\* outside='time' with the box and the window: more pairs than without
\* outside, fewer than under 'both'
C13_Witness ==
  /\ Selected /\ arguments.outside = "time"
  /\ PairsOf(ResultWithOutside("None").dict) # {}
  /\ PairsOf(ResultWithOutside("None").dict) # PairsOf(result.dict)
  /\ PairsOf(ResultWithOutside("both").dict) # PairsOf(result.dict)

\* an ocean and an allowlist are given and outside='time' returns more pairs
\* than no outside
C13_WitnessOcean ==
  /\ Selected /\ arguments.outside = "time" /\ arguments.ocean = "P"
  /\ arguments.floats.form = "list"
  /\ PairsOf(ResultWithOutside("None").dict) # {}
  /\ PairsOf(ResultWithOutside("None").dict) # PairsOf(result.dict)

\* C18: select_profiles accepts outside = 'none', 'time', 'space' and 'both',
\* and with 'none' it returns what it returns when outside is not given.
C18_NoneIsOmitted ==
  ( /\ result.call = "select_profiles"
    /\ arguments.outside \in {"none", "time", "space", "both"}
    /\ ResultWithOutside("None").status = "returned" ) =>
      /\ result.status = "returned"
      /\ arguments.outside = "none" => result = ResultWithOutside("None")

\* the three other documented values are accepted
C18_OtherValuesAccepted ==
  ( /\ result.call = "select_profiles"
    /\ arguments.outside \in {"time", "space", "both"}
    /\ ResultWithOutside("None").status = "returned" ) =>
      result.status = "returned"

StrictlyAscending(seq) ==
  \A i \in DOMAIN seq : \A j \in DOMAIN seq : i < j => seq[i] < seq[j]

\* C19: the keys of a returned dictionary are in strictly ascending order of
\* float id, and each float's list of ordinals is strictly ascending.
C19_ResultIsOrdered ==
  Selected =>
    /\ StrictlyAscending([k \in DOMAIN result.dict |-> result.dict[k].wmoid])
    /\ \A k \in DOMAIN result.dict : StrictlyAscending(result.dict[k].profiles)

\* two floats are returned, the rows of the larger id come first in the
\* selection frame, and one float has two ordinals
C19_Witness ==
  /\ Selected /\ Len(result.dict) = 2
  /\ selection_frame.rows[1].wmoid = 2
  /\ \E k \in DOMAIN result.dict : Len(result.dict[k].profiles) = 2

(***************************************************************************)
(* Properties of the fast paths (SpecFastPath).                            *)
(***************************************************************************)
\* the general test of the region on one row: the point-in-polygon test on the
\* row's position against the shape of the limits; a row without a position
\* is in no shape
GeneralRegionTest(r) ==
  /\ r.longitude # NaN /\ r.latitude # NaN
  /\ ContainsPoint(Shape(criteria), r.longitude, r.latitude)
\* the general test of the dates: strictly between start and end
GeneralDateTest(r) ==
  criteria.start_date < r.date /\ r.date < criteria.end_date
\* the floats of the scope with a row that passes both general tests
GeneralFloats ==
  {w \in AllFloats :
     \E t \in {"prof", "sprof"} : \E k \in DOMAIN TableRows(t) :
       /\ TableRows(t)[k].wmoid = w
       /\ <<t, TableRows(t)[k].file>> \in ScopeOf(arguments.type, GivenFloats)
       /\ GeneralRegionTest(TableRows(t)[k])
       /\ GeneralDateTest(TableRows(t)[k])}
WholeGlobeAndDates ==
  /\ Selected
  /\ arguments.lim = [lon |-> <<-180, 180>>, lat |-> <<-90, 90>>]
  /\ arguments.dates = FullDates
  /\ arguments.ocean = "None"

\* C14: over the limits [-180,180] x [-90,90] and the full date range the
\* floats of the result are the floats with a row that passes the general
\* point-in-region test and the general strict date comparison, for every
\* catalog, rows without a position and rows dated at the epoch included.
C14_FastPathEqualsGeneralTest ==
  WholeGlobeAndDates => ResultKeys = GeneralFloats

\* the same for catalogs whose rows all have a position and a later date
C14_FastPathOnPositionedRows ==
  ( /\ WholeGlobeAndDates
    /\ \A t \in {"prof", "sprof"} : \A k \in DOMAIN TableRows(t) :
         TableRows(t)[k].longitude # NaN /\ TableRows(t)[k].date > Epoch ) =>
      ResultKeys = GeneralFloats

(***************************************************************************)
(* Properties of the longitude limits (SpecLimits).                        *)
(***************************************************************************)
\* C15: limits whose minimum is at least -180 and whose span is in (0, 360]
\* are left as they are by the normalization of __validate_lon_lat_limits,
\* and normalizing again limits that were normalized to a minimum of at least
\* -180 changes nothing.
C15_NormalizationIsIdempotent ==
  (result.call = "select_profiles" /\ ~LimitsRaise(arguments.lim)) =>
    /\ Min2(arguments.lim.lon) >= -180 => criteria.lon_lim = arguments.lim.lon
    /\ Min2(criteria.lon_lim) >= -180 =>
         AdjustLonLim(criteria.lon_lim) = criteria.lon_lim

\* limits below -180 were moved by 360 to a minimum of at least -180
C15_Witness ==
  /\ result.call = "select_profiles" /\ ~LimitsRaise(arguments.lim)
  /\ Min2(arguments.lim.lon) < -180
  /\ criteria.lon_lim # arguments.lim.lon
  /\ Min2(criteria.lon_lim) >= -180

\* the longitude of the row moved by some multiple of 360 is within the
\* longitude limits of the call
SomeTurnInside(x, lon) == \E k \in -2..2 : lon[1] <= x + 360 * k /\ x + 360 * k <= lon[2]
RowInLatitudes(r) ==
  arguments.lim.lat[1] <= r.latitude /\ r.latitude <= arguments.lim.lat[2]

\* C16: with two-element limits [a, b], 0 < b - a <= 360, in any 360-degree
\* range, a row at a latitude within the limits and a longitude x of
\* [-180, 180] is matched if and only if x + 360k is in [a, b] for an integer k.
C16_AnyRangeOfLongitudes ==
  Selected =>
    \A i \in DOMAIN prof_index.rows :
      RowInLatitudes(prof_index.rows[i]) =>
        ( prof_index.rows[i].wmoid \in ResultKeys
            <=> SomeTurnInside(prof_index.rows[i].longitude, arguments.lim.lon) )

\* the same for limits between -540 and 540 and a row not at -180
C16_WithinOneTurn ==
  ( /\ Selected
    /\ arguments.lim.lon[1] >= -540 /\ arguments.lim.lon[2] < 540 ) =>
    \A i \in DOMAIN prof_index.rows :
      (RowInLatitudes(prof_index.rows[i]) /\ prof_index.rows[i].longitude # -180) =>
        ( prof_index.rows[i].wmoid \in ResultKeys
            <=> SomeTurnInside(prof_index.rows[i].longitude, arguments.lim.lon) )

(***************************************************************************)
(* Properties of the validations (SpecInvalid).                            *)
(***************************************************************************)
\* the criteria the call is to reject
InvalidCriteria(a) ==
  \/ Len(a.lim.lon) # Len(a.lim.lat)
  \/ \E i \in DOMAIN a.lim.lat : a.lim.lat[i] < -90 \/ a.lim.lat[i] > 90
  \/ Max2(a.lim.lon) - Min2(a.lim.lon) <= 0
  \/ Max2(a.lim.lon) - Min2(a.lim.lon) > 360
  \/ a.dates.end < a.dates.start
  \/ a.dates.start < Epoch
  \/ a.type \notin {"all", "phys", "bgc"}
  \/ a.outside \notin {"None", "time", "space", "both"}
  \/ a.ocean \notin {"None", "A", "P", "I"}
\* a step that is a call of select_profiles
SelectStep == calls' = calls + 1 /\ result'.call = "select_profiles"
\* the step raises and leaves every table and selection frame as it was
RejectedBeforeTables ==
  /\ result'.status = "raised"
  /\ UNCHANGED <<prof_index, sprof_index, selected_from_prof_index,
                 selected_from_sprof_index, selection_frame>>

\* C17: a call of select_profiles with invalid criteria (empty words for type,
\* outside and ocean included) raises before any table is loaded, read or
\* filtered, and returns nothing.
C17_InvalidRejectedBeforeTables ==
  [][(SelectStep /\ InvalidCriteria(arguments')) => RejectedBeforeTables]_vars

\* the same for the invalid criteria that are not an empty word
C17_NonEmptyInvalidRejected ==
  [][(SelectStep /\ InvalidCriteria(arguments')
        /\ "" \notin {arguments'.type, arguments'.outside, arguments'.ocean})
       => RejectedBeforeTables]_vars

(***************************************************************************)
(* Properties of sequences of calls (SpecSequence).                        *)
(***************************************************************************)
\* what the last call returns or raises when it is the first call on a fresh
\* instance over the same tables
ResultOnFreshInstance == SelectProfilesOn(arguments, FreshInstance).result

\* C20: whatever calls of select_profiles came before, a call returns what
\* the same call returns as the first call on a fresh instance over the same
\* tables.
C20_NoStateBetweenCalls ==
  result.call = "select_profiles" => result = ResultOnFreshInstance

\* the same for the first call, and for later calls that are not verbose and
\* pass two-element limits
C20_TwoElementLimits ==
  ( /\ result.call = "select_profiles"
    /\ calls = 1 \/ (~verbose /\ Len(arguments.lim.lon) = 2) ) =>
      result = ResultOnFreshInstance

(***************************************************************************)
(* Properties of the tables under a selection (SpecInvalid).               *)
(***************************************************************************)
\* C23: with the index kept in memory, a call of select_profiles, returning
\* or raising, leaves the physical table, the biogeochemical table and the
\* table of the floats' classification as they were: the same rows in the same
\* order with the same ordinals and is_bgc flags.
C23_SelectionKeepsTables ==
  [][(SelectStep /\ keep_index_in_memory) =>
       UNCHANGED <<prof_index, sprof_index, float_stats>>]_vars

\* a call returned fewer rows than the tables hold, the physical table holds
\* a row of a bgc float, and the tables are those of the construction
C23_Witness ==
  /\ Selected /\ keep_index_in_memory
  /\ Len(selection_frame.rows) >= 1
  /\ Len(selection_frame.rows) < Len(prof_index.rows) + Len(sprof_index.rows)
  /\ \E i \in DOMAIN prof_index.rows : prof_index.rows[i].is_bgc
  /\ prof_index = Frame(MarkBgcsInProf(LoadProfDataframe(prof_file),
                                       LoadSprofDataframe(sprof_file)), TRUE)

(***************************************************************************)
(* Properties of the lazy mode (SpecSelect).                               *)
(***************************************************************************)
\* what the call of the state returns, without floats, on the tables that the
\* construction builds from the two files and keeps in memory
ResultOnBuiltTables ==
  LET sprof == LoadSprofDataframe(sprof_file)
      prof == MarkBgcsInProf(LoadProfDataframe(prof_file), sprof)
      c == Criteria(arguments, NoCriteria)
      sel_prof == SelectedFromProf(prof, float_stats, arguments.floats,
                                   arguments.type, NoFrame)
      sel_sprof == SelectedFromSprof(sprof, float_stats, arguments.floats,
                                     arguments.type, NoFrame)
  IN Returned("select_profiles",
              DataframeToDictionary(SelectionFrame(sel_prof, sel_sprof, c)))
\* a call without floats on an instance that is not verbose
PlainCall ==
  /\ result.call = "select_profiles"
  /\ arguments.floats.form = "none" /\ ~verbose

\* C22: with keep_index_in_memory false a call of select_profiles completes
\* without error and returns what it returns with keep_index_in_memory true,
\* the bgc floats left out of the physical table.
C22_LazyCallsReturn ==
  (PlainCall /\ ~keep_index_in_memory) => result = ResultOnBuiltTables

\* with keep_index_in_memory true the call returns that result
C22_InMemoryCallsReturn ==
  (PlainCall /\ keep_index_in_memory) => result = ResultOnBuiltTables

\* with keep_index_in_memory false no call of select_profiles returns
C22_LazyCallsRaise ==
  (result.call = "select_profiles" /\ ~keep_index_in_memory) =>
    result.status = "raised"

(***************************************************************************)
(* Properties of the ocean filter (SpecOutside).                           *)
(***************************************************************************)
\* the rows retained by the outside mode of the call whose ocean is the
\* requested one
RetainedInOcean ==
  UNION {{<<t, TableRows(t)[k].file>> :
            k \in {j \in DOMAIN TableRows(t) :
                     /\ <<t, TableRows(t)[j].file>> \in RetainedRows(arguments.outside)
                     /\ TableRows(t)[j].ocean = arguments.ocean}} :
         t \in {"prof", "sprof"}}

\* C29: with an ocean, the rows of the result are exactly the rows retained by
\* the outside mode whose ocean is the requested one, the eligibility of a
\* float being taken from all its rows; the floats of the result are the
\* floats of these rows, each with the ordinals of these rows.
C29_OceanAfterOutside ==
  (Selected /\ arguments.ocean # "None") =>
    /\ SelectedRows = RetainedInOcean
    /\ ResultKeys = WmoidsOf(selection_frame.rows)
    /\ \A k \in DOMAIN result.dict :
         ProfilesOfKey(k) = OrdinalsIn(RetainedInOcean, result.dict[k].wmoid)

\* a float is returned whose rows inside the region and the window are all of
\* another ocean, next to a float of the retained rows that is absent
C29_Witness ==
  /\ Selected /\ arguments.ocean = "P"
  /\ \E w \in ResultKeys :
       \A t \in {"prof", "sprof"} : \A k \in DOMAIN TableRows(t) :
         ( /\ TableRows(t)[k].wmoid = w
           /\ MatchesRegion(TableRows(t)[k]) /\ MatchesWindow(TableRows(t)[k]) )
           => TableRows(t)[k].ocean # "P"
  /\ \E x \in RetainedRows(arguments.outside) : x \notin SelectedRows
  /\ Cardinality(EligibleFloats) = 2 /\ Cardinality(ResultKeys) = 1

(***************************************************************************)
(* Properties of the two filtered inputs (SpecOutside).                    *)
(***************************************************************************)
\* the rows the call filters from each table: none from a table the type
\* leaves out
PhysInput ==
  IF arguments.type = "bgc" THEN <<>> ELSE selected_from_prof_index.rows
BgcInput ==
  IF arguments.type = "phys" THEN <<>> ELSE selected_from_sprof_index.rows
\* the eligibility taken over the concatenation of the two inputs, then the
\* ocean filter
FilteredAsOneTable ==
  LET kept == GetInTimeAndSpaceConstraints(BgcInput \o PhysInput, criteria)
  IN IF arguments.ocean = "None" THEN kept
     ELSE SelectSeq(kept, LAMBDA r : r.ocean = arguments.ocean)

\* C30: for every type and allowlist the floats of the filtered physical input
\* and the floats of the filtered biogeochemical input are disjoint, and the
\* rows retained are those retained when the eligibility of a float is taken
\* over the concatenation of the two inputs.
C30_InputsAreDisjoint ==
  Selected =>
    /\ WmoidsOf(PhysInput) \cap WmoidsOf(BgcInput) = {}
    /\ selection_frame.rows = FilteredAsOneTable

\* type 'all' with an allowlist: a bgc float with rows in both files and a
\* physical float are returned from different tables, under an outside mode
C30_Witness ==
  /\ Selected /\ arguments.type = "all" /\ arguments.floats.form = "list"
  /\ arguments.outside \in {"time", "space", "both"}
  /\ PhysInput # <<>> /\ BgcInput # <<>>
  /\ \E w \in BgcFloats : w \in WmoidsOf(prof_file) /\ w \in ResultKeys
  /\ Len(result.dict) = 2

(***************************************************************************)
(* Properties of the date filter (SpecDates).                              *)
(***************************************************************************)
\* the window of the call is the full supported range
FullRange == arguments.dates.start = Epoch /\ arguments.dates.end >= Now
StrictlyInside(r) == arguments.dates.start < r.date /\ r.date < arguments.dates.end

\* C27: over the globe, the rows of the result are every row when the window
\* starts at 1995-01-01 and ends now or later, and otherwise exactly the rows
\* dated strictly after the start and strictly before the end.
C27_StrictWindow ==
  Selected =>
    \A i \in DOMAIN prof_index.rows :
      ( <<"prof", prof_index.rows[i].file>> \in SelectedRows
          <=> (FullRange \/ StrictlyInside(prof_index.rows[i])) )

\* a window from the epoch that ends before now: rows dated at its start and
\* at its end are left out and a row in between is returned
C27_Witness ==
  /\ Selected /\ arguments.dates = [start |-> Epoch, end |-> 2]
  /\ \E i \in DOMAIN prof_index.rows : prof_index.rows[i].date = Epoch
  /\ \E i \in DOMAIN prof_index.rows : prof_index.rows[i].date = 2
  /\ Len(prof_index.rows) = 3 /\ Len(selection_frame.rows) = 1

(***************************************************************************)
(* The normalization of the limits (SpecLimits).                           *)
(***************************************************************************)
AcceptedLimits == result.call = "select_profiles" /\ ~LimitsRaise(arguments.lim)
ShiftedByOneTurn ==
  criteria.lon_lim = [i \in DOMAIN arguments.lim.lon |-> arguments.lim.lon[i] + 360]

\* C28: for accepted limits whose minimum is below -180 every value is moved
\* by +360, and the minimum of the normalized limits is never below -180.
C28_FloorOfNormalizedLimits ==
  AcceptedLimits =>
    /\ Min2(arguments.lim.lon) < -180 => ShiftedByOneTurn
    /\ Min2(criteria.lon_lim) >= -180

\* the limits below -180 are moved by +360, and the minimum is at least -180
\* when the given minimum is at least -540
C28_OneTurnOnly ==
  AcceptedLimits =>
    /\ Min2(arguments.lim.lon) < -180 => ShiftedByOneTurn
    /\ Min2(arguments.lim.lon) >= -540 => Min2(criteria.lon_lim) >= -180

(***************************************************************************)
(* The order and the number of the host requests (SpecFetch).              *)
(***************************************************************************)
\* C25: the first request of a fetch goes to the first host; a request to a
\* host after the first follows a failed request to the host before it, a
\* later request to the first host follows a failed request to the last host
\* (the next attempt); no request follows a request that succeeded.
C25_HostsInListOrder ==
  /\ requests # <<>> => requests[1].host = 1
  /\ \A k \in 1..(Len(requests) - 1) :
       /\ requests[k].result # "ok"
       /\ requests[k + 1].host =
            IF requests[k].host = NumHosts THEN 1 ELSE requests[k].host + 1

\* the second host succeeded in the second attempt, after three failures
C25_Witness ==
  /\ FetchDone /\ outcome = "returned"
  /\ Len(requests) = 2 * NumHosts
  /\ requests[Len(requests)].result = "ok"
  /\ requests[Len(requests)].host = NumHosts
  /\ file_path.src = NumHosts

\* no request of the fetch succeeded
NoRequestSucceeded ==
  requests # <<>> /\ \A i \in DOMAIN requests : requests[i].result # "ok"

\* C26: a fetch makes at most max_attempts x (number of hosts) requests; an
\* error at a host does not end the attempt or the call early: when every
\* request failed, exactly max_attempts x (number of hosts) requests were made
\* and the call ended with the warning or the fatal error.
C26_BoundedRetry ==
  /\ Len(requests) <= max_attempts * NumHosts
  /\ (FetchDone /\ NoRequestSucceeded) =>
       /\ Len(requests) = max_attempts * NumHosts
       /\ outcome = FailedOutcome(update_status)

\* the bound on the requests, and the exact count when every request failed
\* before the transfer
C26_BoundedWithoutDrops ==
  /\ Len(requests) <= max_attempts * NumHosts
  /\ ( /\ FetchDone /\ NoRequestSucceeded
       /\ \A i \in DOMAIN requests : requests[i].result = "refuse" ) =>
       /\ Len(requests) = max_attempts * NumHosts
       /\ outcome = FailedOutcome(update_status)

(***************************************************************************)
(* The header of the index files (SpecHeader).                             *)
(***************************************************************************)
Constructed == cpc # "new"

\* C24: loading an index file with fewer than 8 lines before its line of
\* column names fails: the construction ends with an error and no table is
\* built from that file.
C24_ShortHeaderFails ==
  Constructed =>
    /\ header_lines.prof < HeaderLines =>
         (cpc = "failed" /\ result.status = "raised" /\ prof_index = NoFrame
            /\ float_stats = <<>>)
    /\ header_lines.sprof < HeaderLines =>
         (cpc = "failed" /\ result.status = "raised" /\ sprof_index = NoFrame)

\* the physical index has seven lines of preamble and enough rows to have a
\* line of index 8; the biogeochemical index is well formed and was loaded
C24_Witness ==
  /\ cpc = "failed"
  /\ header_lines = [prof |-> HeaderLines - 1, sprof |-> HeaderLines]
  /\ Len(prof_file) >= 2
  /\ sprof_index.loaded /\ prof_index = NoFrame

(***************************************************************************)
(* Concurrent selections (SpecConcurrent).                                 *)
(***************************************************************************)
\* what the call of thread t returns when it runs alone on the instance
ResultAlone(t) == SelectProfilesOn(threads[t].args, FreshInstance).result

\* C21: two calls of select_profiles that run at the same time on one
\* instance over the tables in memory each return, under every interleaving of
\* their parts, the result that the call returns when it runs alone.
C21_ConcurrentCallsAreIndependent ==
  \A t \in DOMAIN threads :
    threads[t].pc = "done" => threads[t].result = ResultAlone(t)

\* the same for two calls with the same criteria
C21_SameCriteria ==
  (\A t \in DOMAIN threads : \A u \in DOMAIN threads :
     threads[t].args = threads[u].args) =>
    \A t \in DOMAIN threads :
      threads[t].pc = "done" => threads[t].result = ResultAlone(t)

\* the same for a call that ends before the other call starts
C21_OneAfterTheOther ==
  \A t \in DOMAIN threads : \A u \in DOMAIN threads :
    (threads[t].pc = "done" /\ threads[u].pc = "validate") =>
      threads[t].result = ResultAlone(t)

=============================================================================
